---- MODULE Spec2Model ----
(***************************************************************************)
(* moproxy, src/tls.rs: the TLS record / ClientHello decoder that extracts *)
(* the Server Name Indication hostname.                                    *)
(*                                                                         *)
(* A slice &[u8] of the input is a view [off, len] over the buffer `data`  *)
(* (off is 0-based, as in the source).  Option<T> is a sequence of length  *)
(* 0 (None) or 1 (Some).  Result<&[u8], &str> is a record [err, v] whose   *)
(* err is "" for Ok and the source's error text for Err.                   *)
(***************************************************************************)
EXTENDS Integers, Sequences, FiniteSets, TLC

VARIABLES
    data,         \* the input buffer of parse_client_hello (a sequence of bytes)
    shape,        \* how the input was built (framing facts of the encoder side)
    pc,           \* the source line parse_client_hello is about to execute
    rec,          \* TlsRecord returned by parse_tls_record (line 47..52)
    hello,        \* line 64
    remaining,    \* lines 71, 73, 75
    exts,         \* line 77, 84: the extensions cursor
    ext_type,     \* line 81
    ext_data,     \* line 83
    sni,          \* line 86, 90: the name-list cursor (the inner `data`)
    value,        \* line 88
    name_type,    \* line 89
    server_name,  \* line 78, 92
    result,       \* what the call returned: "" (running), "Ok" or the error text
    hiRead,       \* one past the highest buffer index whose byte was read so far
    len_pos,      \* the slicer's range argument <<start, end>> (slicer runs only)
    taken,        \* what truncate returned (slicer runs only)
    rest          \* what drop_before returned (slicer runs only)

vars == << data, shape, pc, rec, hello, remaining, exts, ext_type, ext_data,
           sni, value, name_type, server_name, result, hiRead,
           len_pos, taken, rest >>

----------------------------------------------------------------------------
(* Slices and the std operations the source calls on them.                 *)

View(o, l) == [off |-> o, len |-> l]

NoView == View(0, 0)

Whole == View(0, Len(data))

\* The bytes a view denotes (empty where the view leaves the buffer).
Bytes(v) ==
    IF v.off + v.len <= Len(data) THEN SubSeq(data, v.off + 1, v.off + v.len)
    ELSE << >>

Inside(v) == v.off + v.len <= Len(data)

\* v[i]: defined when i < v.len; the source panics otherwise.
InBounds(v, i) == i >= 0 /\ i < v.len /\ v.off + i < Len(data)

At(v, i) == IF InBounds(v, i) THEN data[v.off + i + 1] ELSE -1

\* <[u8]>::get(lo..hi): None when the range is not inside the slice.
get(v, lo, hi) ==
    IF lo <= hi /\ hi <= v.len THEN << View(v.off + lo, hi - lo) >> ELSE << >>

Ok(v) == [err |-> "", v |-> v]

Err(e) == [err |-> e, v |-> NoView]

IsOk(r) == r.err = ""

Max(a, b) == IF a >= b THEN a ELSE b

----------------------------------------------------------------------------
(* truncate and drop_before, lines 16..32.                                 *)

\* lines 20..23: len = len << 8 | bit, over the first n bytes of len_bits.
\* A field of at most 3 bytes cannot overflow usize.
RECURSIVE decode_len(_, _)
decode_len(len_bits, n) ==
    IF n = 0 THEN 0
    ELSE decode_len(len_bits, n - 1) * 256 + At(len_bits, n - 1)

truncate_clamped(d, lo, hi) ==
    LET len_bits == get(d, lo, hi)
    IN  IF len_bits = << >> THEN Err("lack data to decode length")
        ELSE LET len  == decode_len(len_bits[1], len_bits[1].len)
                 end  == IF hi + len <= d.len THEN hi + len ELSE d.len
             IN  Ok(get(d, hi, end)[1])

truncate(d, lo, hi) ==
    LET len_bits == get(d, lo, hi)
    IN  IF len_bits = << >> THEN Err("lack data to decode length")
        ELSE LET len  == decode_len(len_bits[1], len_bits[1].len)
                 body == get(d, hi, hi + len)
             IN  IF body = << >> THEN Err("not enough data") ELSE Ok(body[1])

\* The bytes truncate reads: the length field, when it is inside the slice.
truncate_reads(d, lo, hi) ==
    IF get(d, lo, hi) # << >> /\ hi > lo THEN d.off + hi ELSE 0

drop_before_no_len(d, lo, hi) ==
    LET t == truncate(d, lo, hi)
    IN  IF ~IsOk(t) THEN [err |-> t.err, v |-> NoView, panic |-> FALSE]
        ELSE [err |-> "", v |-> View(d.off + hi, d.len - hi), panic |-> FALSE]

\* line 31: &data[len_pos.end + len ..] panics when the start is past the end.
drop_before(d, lo, hi) ==
    LET t == truncate(d, lo, hi)
    IN  IF ~IsOk(t) THEN [err |-> t.err, v |-> NoView, panic |-> FALSE]
        ELSE LET start == hi + t.v.len
             IN  IF start > d.len
                 THEN [err |-> "", v |-> NoView, panic |-> TRUE]
                 ELSE [err |-> "", v |-> View(d.off + start, d.len - start),
                       panic |-> FALSE]

----------------------------------------------------------------------------
(* parse_server_name, lines 103..116, with std's from_utf8, chars and      *)
(* char::is_digit as they behave.                                          *)

\* The length of the UTF-8 sequence a first byte opens (0: no sequence).
utf8_width(b) ==
    IF b < 128 THEN 1
    ELSE IF b >= 194 /\ b <= 223 THEN 2
    ELSE IF b >= 224 /\ b <= 239 THEN 3
    ELSE IF b >= 240 /\ b <= 244 THEN 4
    ELSE 0

\* char::to_digit(radix) for radix > 10; NoDigit stands for None.
NoDigit == 1000000

to_digit(c, radix) ==
    IF c >= 48 /\ c <= 57 THEN c - 48
    ELSE LET lower == IF (c \div 32) % 2 = 0 THEN c + 32 ELSE c
         IN  IF lower >= 97 /\ lower - 97 + 10 < radix
             THEN lower - 97 + 10 ELSE NoDigit

is_digit(c, radix) == to_digit(c, radix) # NoDigit

\* line 111..112: the closure of all().
legal_char(c) == is_digit(c, 36) \/ c = 46 \/ c = 45 \/ c = 95

\* The decoder's state between two bytes: `need` continuation bytes are
\* still due, the next of them in lo..hi, cp is the code point so far; bad
\* once the bytes are no UTF-8, illegal once a decoded char fails line 111.
ScanStart ==
    [need |-> 0, lo |-> 128, hi |-> 191, cp |-> 0, bad |-> FALSE,
     illegal |-> FALSE]

second_lo(first) ==
    IF first = 224 THEN 160 ELSE IF first = 240 THEN 144 ELSE 128

second_hi(first) ==
    IF first = 237 THEN 159 ELSE IF first = 244 THEN 143 ELSE 191

lead_bits(b, w) == IF w = 2 THEN b - 192 ELSE IF w = 3 THEN b - 224 ELSE b - 240

scan_byte(st, b) ==
    IF st.bad THEN st
    ELSE IF st.need = 0
    THEN LET w == utf8_width(b)
         IN  IF w = 0 THEN [st EXCEPT !.bad = TRUE]
             ELSE IF w = 1
             THEN [st EXCEPT !.cp = b, !.illegal = @ \/ ~legal_char(b)]
             ELSE [st EXCEPT !.need = w - 1, !.lo = second_lo(b),
                             !.hi = second_hi(b), !.cp = lead_bits(b, w)]
    ELSE IF b < st.lo \/ b > st.hi THEN [st EXCEPT !.bad = TRUE]
    ELSE LET cp == st.cp * 64 + (b - 128)
         IN  [st EXCEPT !.need = @ - 1, !.lo = 128, !.hi = 191, !.cp = cp,
                        !.illegal = @ \/ (st.need = 1 /\ ~legal_char(cp))]

\* The state after the bytes b[from..to], scanned in order.  The halves are
\* bound as values, so that each byte is scanned once.
RECURSIVE scan(_, _, _, _)
scan(st, b, from, to) ==
    IF from > to THEN st
    ELSE IF from = to THEN scan_byte(st, b[from])
    ELSE LET mid == (from + to) \div 2
         IN  CHOOSE r \in { scan(m, b, mid + 1, to) :
                            m \in { scan(st, b, from, mid) } } : TRUE

\* from_utf8(b).is_ok()
utf8_valid(b) ==
    \E st \in { scan(ScanStart, b, 1, Len(b)) } : ~st.bad /\ st.need = 0

\* name.chars().all(legal_char), of a valid string
chars_all_legal(b) == ~scan(ScanStart, b, 1, Len(b)).illegal

parse_server_name_off_by_one(v) ==
    LET b == Bytes(v)
    IN  IF ~utf8_valid(b) THEN Err("server name not utf-8 string")
        ELSE IF Len(b) >= 255 THEN Err("server name too long")
        ELSE IF ~chars_all_legal(b) THEN Err("illegal char in server name")
        ELSE Ok(v)

parse_server_name(v) ==
    LET b == Bytes(v)
    IN  IF ~utf8_valid(b) THEN Err("server name not utf-8 string")
        ELSE IF Len(b) > 255 THEN Err("server name too long")
        ELSE IF ~chars_all_legal(b) THEN Err("illegal char in server name")
        ELSE Ok(v)

----------------------------------------------------------------------------
(* parse_tls_record, lines 34..43, and the tests of parse_client_hello.    *)

NoRecord ==
    [content_type |-> 0, version_major |-> 0, version_minor |-> 0,
     fragment |-> NoView]

parse_tls_record(d) ==
    LET fragment == truncate(d, 3, 5)
    IN  IF ~IsOk(fragment)
        THEN [err |-> fragment.err, rec |-> NoRecord, panic |-> FALSE]
        ELSE [err |-> "",
              rec |-> [content_type |-> At(d, 0), version_major |-> At(d, 1),
                       version_minor |-> At(d, 2), fragment |-> fragment.v],
              panic |-> ~InBounds(d, 0) \/ ~InBounds(d, 1) \/ ~InBounds(d, 2)]

\* line 53
version_unsupported_below(version) == version < 3

version_unsupported(version) == version # 3

\* line 56
not_handshake(ctype) == ctype # 22

\* lines 61, 66: s.get(0) != Some(&b)
first_is_not(s, b) == get(s, 0, 1) = << >> \/ At(s, 0) # b

\* line 79
exts_loop_nonempty(e) == e.len >= 1

exts_loop(e) == e.len >= 4

\* line 84: the extensions cursor steps over the extension
next_ext_stuck(e) ==
    LET t == truncate(e, 2, 4)
    IN  [err |-> t.err, v |-> IF IsOk(t) THEN e ELSE NoView, panic |-> FALSE]

next_ext(e) == drop_before(e, 2, 4)

\* line 85
is_sni_first_byte(t) == At(t, 0) = 0

is_sni(t) == Bytes(t) = << 0, 0 >>

\* line 87
sni_loop(d) == d.len > 3

\* line 91
is_host_name_one(t) == t = 1

is_host_name(t) == t = 0

\* line 92: the assignment to server_name
set_server_name(old, name) == << name >>

----------------------------------------------------------------------------
(* parse_client_hello, lines 45..101, one action per statement.            *)

Goto(l) == pc' = l /\ result' = result

Return(e) == pc' = "done" /\ result' = e

Panic == pc' = "panic" /\ result' = "panicked"

Read(h) == hiRead' = Max(hiRead, h)

Slicer == << len_pos, taken, rest >>

Input == << data, shape >>

\* line 52: parse_tls_record(data)?
L52 ==
    /\ pc = "L52"
    /\ LET r == parse_tls_record(Whole)
       IN  /\ IF r.panic THEN Panic
              ELSE IF r.err # "" THEN Return(r.err) ELSE Goto("L53")
           /\ rec' = r.rec
           /\ Read(IF r.err = "" THEN 5 ELSE truncate_reads(Whole, 3, 5))
    /\ UNCHANGED << Input, hello, remaining, exts, ext_type, ext_data, sni,
                    value, name_type, server_name, Slicer >>

\* lines 53..55
L53 ==
    /\ pc = "L53"
    /\ IF version_unsupported(rec.version_major)
       THEN Return("unknown tls version") ELSE Goto("L56")
    /\ UNCHANGED << Input, rec, hello, remaining, exts, ext_type, ext_data,
                    sni, value, name_type, server_name, hiRead, Slicer >>

\* lines 56..58
L56 ==
    /\ pc = "L56"
    /\ IF not_handshake(rec.content_type)
       THEN Return("not handshake") ELSE Goto("L61")
    /\ UNCHANGED << Input, rec, hello, remaining, exts, ext_type, ext_data,
                    sni, value, name_type, server_name, hiRead, Slicer >>

\* lines 61..63
L61 ==
    /\ pc = "L61"
    /\ IF first_is_not(rec.fragment, 1)
       THEN Return("not client hello") ELSE Goto("L64")
    /\ Read(IF rec.fragment.len > 0 THEN rec.fragment.off + 1 ELSE 0)
    /\ UNCHANGED << Input, rec, hello, remaining, exts, ext_type, ext_data,
                    sni, value, name_type, server_name, Slicer >>

\* line 64: let hello = truncate(fragment, 1..4)?
L64 ==
    /\ pc = "L64"
    /\ LET r == truncate(rec.fragment, 1, 4)
       IN  /\ IF IsOk(r) THEN Goto("L66") ELSE Return(r.err)
           /\ hello' = r.v
           /\ Read(truncate_reads(rec.fragment, 1, 4))
    /\ UNCHANGED << Input, rec, remaining, exts, ext_type, ext_data, sni,
                    value, name_type, server_name, Slicer >>

\* lines 66..68
L66 ==
    /\ pc = "L66"
    /\ IF first_is_not(hello, 3)
       THEN Return("unsupported client version") ELSE Goto("L71")
    /\ Read(IF hello.len > 0 THEN hello.off + 1 ELSE 0)
    /\ UNCHANGED << Input, rec, hello, remaining, exts, ext_type, ext_data,
                    sni, value, name_type, server_name, Slicer >>

\* line 71: let remaining = drop_before(hello, 34..35)?
L71 ==
    /\ pc = "L71"
    /\ LET r == drop_before(hello, 34, 35)
       IN  /\ IF r.panic THEN Panic
              ELSE IF r.err # "" THEN Return(r.err) ELSE Goto("L73")
           /\ remaining' = r.v
           /\ Read(truncate_reads(hello, 34, 35))
    /\ UNCHANGED << Input, rec, hello, exts, ext_type, ext_data, sni, value,
                    name_type, server_name, Slicer >>

\* line 73: let remaining = drop_before(remaining, 0..2)?
L73 ==
    /\ pc = "L73"
    /\ LET r == drop_before(remaining, 0, 2)
       IN  /\ IF r.panic THEN Panic
              ELSE IF r.err # "" THEN Return(r.err) ELSE Goto("L75")
           /\ remaining' = r.v
           /\ Read(truncate_reads(remaining, 0, 2))
    /\ UNCHANGED << Input, rec, hello, exts, ext_type, ext_data, sni, value,
                    name_type, server_name, Slicer >>

\* line 75: let remaining = drop_before(remaining, 0..1)?
L75 ==
    /\ pc = "L75"
    /\ LET r == drop_before(remaining, 0, 1)
       IN  /\ IF r.panic THEN Panic
              ELSE IF r.err # "" THEN Return(r.err) ELSE Goto("L77")
           /\ remaining' = r.v
           /\ Read(truncate_reads(remaining, 0, 1))
    /\ UNCHANGED << Input, rec, hello, exts, ext_type, ext_data, sni, value,
                    name_type, server_name, Slicer >>

\* lines 77..78: let mut exts = truncate(remaining, 0..2)?; server_name = None
L77 ==
    /\ pc = "L77"
    /\ LET r == truncate(remaining, 0, 2)
       IN  /\ IF IsOk(r) THEN Goto("L79") ELSE Return(r.err)
           /\ exts' = r.v
           /\ Read(truncate_reads(remaining, 0, 2))
    /\ server_name' = << >>
    /\ UNCHANGED << Input, rec, hello, remaining, ext_type, ext_data, sni,
                    value, name_type, Slicer >>

\* line 79: while exts.len() >= 4
L79 ==
    /\ pc = "L79"
    /\ IF exts_loop(exts) THEN Goto("L81") ELSE Goto("L98")
    /\ UNCHANGED << Input, rec, hello, remaining, exts, ext_type, ext_data,
                    sni, value, name_type, server_name, hiRead, Slicer >>

\* lines 81..83: ext_type = &exts[0..2]; ext_data = truncate(exts, 2..4)?
L81 ==
    /\ pc = "L81"
    /\ LET r == truncate(exts, 2, 4)
       IN  /\ IF exts.len < 2 THEN Panic
              ELSE IF IsOk(r) THEN Goto("L84") ELSE Return(r.err)
           /\ ext_type' = View(exts.off, 2)
           /\ ext_data' = r.v
           /\ Read(truncate_reads(exts, 2, 4))
    /\ UNCHANGED << Input, rec, hello, remaining, exts, sni, value,
                    name_type, server_name, Slicer >>

\* line 84: exts = drop_before(exts, 2..4)?
L84 ==
    /\ pc = "L84"
    /\ LET r == next_ext(exts)
       IN  /\ IF r.panic THEN Panic
              ELSE IF r.err # "" THEN Return(r.err) ELSE Goto("L85")
           /\ exts' = IF r.err = "" /\ ~r.panic THEN r.v ELSE exts
           /\ Read(truncate_reads(exts, 2, 4))
    /\ UNCHANGED << Input, rec, hello, remaining, ext_type, ext_data, sni,
                    value, name_type, server_name, Slicer >>

\* line 85: if ext_type == &[0, 0]
L85 ==
    /\ pc = "L85"
    /\ IF is_sni(ext_type) THEN Goto("L86") ELSE Goto("L79")
    /\ Read(ext_type.off + 2)
    /\ UNCHANGED << Input, rec, hello, remaining, exts, ext_type, ext_data,
                    sni, value, name_type, server_name, Slicer >>

\* line 86: let mut data = truncate(ext_data, 0..2)?
L86 ==
    /\ pc = "L86"
    /\ LET r == truncate(ext_data, 0, 2)
       IN  /\ IF IsOk(r) THEN Goto("L87") ELSE Return(r.err)
           /\ sni' = r.v
           /\ Read(truncate_reads(ext_data, 0, 2))
    /\ UNCHANGED << Input, rec, hello, remaining, exts, ext_type, ext_data,
                    value, name_type, server_name, Slicer >>

\* line 87: while data.len() > 3
L87 ==
    /\ pc = "L87"
    /\ IF sni_loop(sni) THEN Goto("L88") ELSE Goto("L79")
    /\ UNCHANGED << Input, rec, hello, remaining, exts, ext_type, ext_data,
                    sni, value, name_type, server_name, hiRead, Slicer >>

\* lines 88..89: value = truncate(data, 1..3)?; name_type = data[0]
L88 ==
    /\ pc = "L88"
    /\ LET r == truncate(sni, 1, 3)
       IN  /\ IF ~IsOk(r) THEN Return(r.err)
              ELSE IF ~InBounds(sni, 0) THEN Panic ELSE Goto("L90")
           /\ value' = r.v
           /\ name_type' = IF IsOk(r) THEN At(sni, 0) ELSE name_type
           /\ Read(truncate_reads(sni, 1, 3))
    /\ UNCHANGED << Input, rec, hello, remaining, exts, ext_type, ext_data,
                    sni, server_name, Slicer >>

\* line 90: data = drop_before(data, 1..3)?
L90 ==
    /\ pc = "L90"
    /\ LET r == drop_before(sni, 1, 3)
       IN  /\ IF r.panic THEN Panic
              ELSE IF r.err # "" THEN Return(r.err) ELSE Goto("L91")
           /\ sni' = IF r.err = "" /\ ~r.panic THEN r.v ELSE sni
           /\ Read(truncate_reads(sni, 1, 3))
    /\ UNCHANGED << Input, rec, hello, remaining, exts, ext_type, ext_data,
                    value, name_type, server_name, Slicer >>

\* line 91: if name_type == 0
L91 ==
    /\ pc = "L91"
    /\ IF is_host_name(name_type) THEN Goto("L92") ELSE Goto("L87")
    /\ UNCHANGED << Input, rec, hello, remaining, exts, ext_type, ext_data,
                    sni, value, name_type, server_name, hiRead, Slicer >>

\* line 92: server_name = Some(parse_server_name(value)?)
L92 ==
    /\ pc = "L92"
    /\ LET r == parse_server_name(value)
       IN  /\ IF IsOk(r) THEN Goto("L87") ELSE Return(r.err)
           /\ server_name' = IF IsOk(r) THEN set_server_name(server_name, r.v)
                             ELSE server_name
    /\ Read(IF value.len > 0 THEN value.off + value.len ELSE 0)
    /\ UNCHANGED << Input, rec, hello, remaining, exts, ext_type, ext_data,
                    sni, value, name_type, Slicer >>

\* lines 98..100: Ok(TlsClientHello { server_name })
L98 ==
    /\ pc = "L98"
    /\ Return("Ok")
    /\ UNCHANGED << Input, rec, hello, remaining, exts, ext_type, ext_data,
                    sni, value, name_type, server_name, hiRead, Slicer >>

----------------------------------------------------------------------------
(* The inputs: the two buffers of the tests (lines 121..143, 167..192) and *)
(* buffers encoded in the layout the parser decodes (lines 60..91).  A     *)
(* piece is the bytes of a part of a message with the facts the encoder    *)
(* knows about it: the hostname entries it put in (offset and length in    *)
(* the piece, and which check of parse_server_name the name fails), the    *)
(* number of Server Name extensions, and whether every length field        *)
(* states the length of what follows it.                                   *)

MaxExts == 2         \* extensions in an encoded extensions block
MaxEntries == 2      \* entries in an encoded server name list
MaxSid == 1          \* bytes of session id in an encoded hello
MaxTrail == 3        \* bytes left over after the last extension or entry

Pow256(k) == IF k = 0 THEN 1 ELSE IF k = 1 THEN 256 ELSE 65536

\* n as w big-endian bytes
BE(n, w) == [i \in 1..w |-> (n \div Pow256(w - i)) % 256]

Repeat(b, n) == [i \in 1..n |-> b]

Raw(b) == [b |-> b, hosts |-> << >>, sni |-> 0, ok |-> TRUE]

Damaged(p) == [p EXCEPT !.ok = FALSE]

Shift(hosts, n) ==
    [i \in 1..Len(hosts) |-> [hosts[i] EXCEPT !.off = @ + n]]

Cat(p, q) ==
    [b |-> p.b \o q.b, hosts |-> p.hosts \o Shift(q.hosts, Len(p.b)),
     sni |-> p.sni + q.sni, ok |-> p.ok /\ q.ok]

RECURSIVE CatAll(_)
CatAll(ps) == IF ps = << >> THEN Raw(<< >>) ELSE Cat(Head(ps), CatAll(Tail(ps)))

\* p behind a w-byte length field that states Len(p.b)
Sized(w, p) == Cat(Raw(BE(Len(p.b), w)), p)

SeqsUpTo(S, n) == UNION { [1..k -> S] : k \in 0..n }

\* line 88..92: an entry of the server name list with name_type 0
HostEntry(name, kind) ==
    [b |-> << 0 >> \o BE(Len(name), 2) \o name,
     hosts |-> << [off |-> 3, len |-> Len(name), kind |-> kind] >>,
     sni |-> 0, ok |-> TRUE]

\* an entry of another name type, whose value is no hostname
OtherEntry == Raw(<< 1, 0, 2, 255, 32 >>)

\* an entry that declares one byte more than follows it
ShortEntry == Damaged(Raw(<< 0, 0, 2, 97 >>))

NameA == << 97 >>                          \* "a"
NameMixed == << 90, 45, 57, 95, 46, 107 >> \* "Z-9_.k"
NameSpace == << 97, 32, 98 >>              \* "a b"
NameBadUtf8 == << 97, 255 >>
NameAccent == << 195, 169 >>               \* U+00E9, two bytes

EntryKinds ==
    { HostEntry(NameA, "ok"), HostEntry(NameMixed, "ok"),
      HostEntry(<< >>, "ok"), HostEntry(NameSpace, "illegal"),
      HostEntry(NameBadUtf8, "utf8"), HostEntry(NameAccent, "illegal"),
      OtherEntry, ShortEntry }

\* lines 85..86: a Server Name extension around a name list, with `trail`
\* bytes left in the list after its last entry
SniExt(list, trail) ==
    LET body == Sized(2, Cat(list, Raw(Repeat(0, trail))))
        ext  == Cat(Raw(<< 0, 0 >>), Sized(2, body))
    IN  [ext EXCEPT !.sni = 1, !.ok = @ /\ trail = 0]

OtherEmpty == Raw(<< 0, 23, 0, 0 >>)

OtherData == Raw(<< 0, 10, 0, 2, 0, 29 >>)

OtherFF == Raw(<< 255, 1, 0, 1, 0 >>)

\* an extension that declares 5 bytes and holds 1
ShortExt == Damaged(Raw(<< 0, 23, 0, 5, 1 >>))

ExtKinds ==
    { OtherEmpty, OtherData, OtherFF, ShortExt,
      SniExt(HostEntry(NameA, "ok"), 0), SniExt(HostEntry(NameMixed, "ok"), 0) }

\* line 77: the extensions block, with `trail` bytes after the last extension
ExtBlock(es, trail) ==
    LET p == Sized(2, Cat(es, Raw(Repeat(0, trail))))
    IN  [p EXCEPT !.ok = @ /\ trail = 0]

RandomBytes == [i \in 1..32 |-> 200 + i]

\* lines 65..75: client version, random, session id, cipher suites,
\* compression methods, then `tail`
Hello(cver, sidlen, tail) ==
    Cat(Raw(<< cver, 3 >> \o RandomBytes \o << sidlen >> \o Repeat(7, sidlen)
            \o << 0, 2, 192, 47 >> \o << 1, 0 >>),
        tail)

\* lines 36..40, 61..64: record header, handshake type and length
Record(ctype, vmajor, hstype, h) ==
    Cat(Raw(<< ctype, vmajor, 1 >>), Sized(2, Cat(Raw(<< hstype >>), Sized(3, h))))

MakeInput(family, p, headers_ok, tail) ==
    [data |-> p.b,
     shape |-> [family |-> family, wf |-> p.ok /\ headers_ok, tail |-> tail,
                sni |-> p.sni, hosts |-> p.hosts]]

Plain(family, exts_block) ==
    MakeInput(family, Record(22, 3, 1, Hello(3, 0, exts_block)), TRUE, "exts")

\* extension walks
WalkInputs ==
    { Plain("walk", ExtBlock(CatAll(es), t)) :
        es \in SeqsUpTo(ExtKinds, MaxExts), t \in 0..MaxTrail }

\* name lists, in one Server Name extension after another extension
ListInputs ==
    { Plain("list", ExtBlock(Cat(OtherEmpty, SniExt(CatAll(l), 0)), 0)) :
        l \in SeqsUpTo(EntryKinds, MaxEntries) }
    \cup
    { Plain("list", ExtBlock(SniExt(HostEntry(NameA, "ok"), t), 0)) :
        t \in 1..MaxTrail }

\* names around the limit of line 108
LongNames ==
    { [name |-> Repeat(97, 254), kind |-> "ok"],
      [name |-> Repeat(97, 255), kind |-> "ok"],
      [name |-> Repeat(97, 256), kind |-> "long"],
      [name |-> Repeat(97, 254) \o << 32 >>, kind |-> "illegal"],
      [name |-> Repeat(97, 255) \o << 32 >>, kind |-> "long"],
      [name |-> Repeat(97, 255) \o << 255 >>, kind |-> "utf8"],
      [name |-> Repeat(97, 253) \o NameAccent, kind |-> "illegal"],
      [name |-> Repeat(97, 254) \o NameAccent, kind |-> "long"] }

LongInputs ==
    { Plain("long", ExtBlock(SniExt(HostEntry(n.name, n.kind), 0), 0)) :
        n \in LongNames }

\* record and handshake headers
HeaderInputs ==
    { MakeInput("header",
                Record(c, v, h, Hello(cv, s,
                       ExtBlock(SniExt(HostEntry(NameA, "ok"), 0), 0))),
                c = 22 /\ v = 3 /\ h = 1 /\ cv = 3, "exts") :
        c \in {22, 23, 0}, v \in {3, 2, 4}, h \in {1, 2}, cv \in {3, 2},
        s \in 0..MaxSid }

\* a hello that ends after the compression methods, or one byte later
NoExtsInputs ==
    { MakeInput("noexts", Record(22, 3, 1, Hello(3, s, Raw(Repeat(0, t)))),
                TRUE, "none") :
        s \in 0..MaxSid, t \in 0..1 }

\* test_parse_without_server_name, lines 121..143
TestWithout ==
    << 22, 3, 1, 0, 161, 1, 0, 0, 157, 3, 3, 82, 54, 44, 16, 18,
       207, 35, 98, 130, 86, 231, 69, 233, 3, 206, 166, 150, 233, 246, 42, 96,
       186, 10, 232, 49, 29, 112, 222, 165, 228, 25, 73, 0, 0, 4, 192, 48,
       0, 255, 2, 1, 0, 0, 111, 0, 11, 0, 4, 3, 0, 1, 2, 0,
       10, 0, 52, 0, 50, 0, 14, 0, 13, 0, 25, 0, 11, 0, 12, 0,
       24, 0, 9, 0, 10, 0, 22, 0, 23, 0, 8, 0, 6, 0, 7, 0,
       20, 0, 21, 0, 4, 0, 5, 0, 18, 0, 19, 0, 1, 0, 2, 0,
       3, 0, 15, 0, 16, 0, 17, 0, 35, 0, 0, 0, 13, 0, 34, 0,
       32, 6, 1, 6, 2, 6, 3, 5, 1, 5, 2, 5, 3, 4, 1, 4,
       2, 4, 3, 3, 1, 3, 2, 3, 3, 2, 1, 2, 2, 2, 3, 1,
       1, 0, 15, 0, 1, 1 >>

\* test_parse_with_server_name, lines 167..192
TestWith ==
    << 22, 3, 1, 0, 186, 1, 0, 0, 182, 3, 3, 206, 243, 200, 119, 54,
       106, 129, 59, 47, 34, 200, 211, 41, 237, 248, 182, 236, 217, 115, 251, 118,
       102, 108, 187, 160, 80, 189, 66, 19, 213, 196, 241, 0, 0, 30, 192, 43,
       192, 47, 204, 169, 204, 168, 192, 44, 192, 48, 192, 10, 192, 9, 192, 19,
       192, 20, 0, 51, 0, 57, 0, 47, 0, 53, 0, 10, 1, 0, 0, 111,
       0, 0, 0, 19, 0, 17, 0, 0, 14, 119, 119, 119, 46, 103, 111, 111,
       103, 108, 101, 46, 99, 111, 109, 0, 23, 0, 0, 255, 1, 0, 1, 0,
       0, 10, 0, 10, 0, 8, 0, 29, 0, 23, 0, 24, 0, 25, 0, 11,
       0, 2, 1, 0, 0, 35, 0, 0, 0, 16, 0, 14, 0, 12, 2, 104,
       50, 8, 104, 116, 116, 112, 47, 49, 46, 49, 0, 5, 0, 5, 1, 0,
       0, 0, 0, 0, 13, 0, 24, 0, 22, 4, 3, 5, 3, 6, 3, 8,
       4, 8, 5, 8, 6, 4, 1, 5, 1, 6, 1, 2, 3, 2, 1 >>

\* "www.google.com" in TestWith
TestName == << 119, 119, 119, 46, 103, 111, 111, 103, 108, 101, 46, 99, 111, 109 >>

\* b with the bytes at the 0-based position pos replaced by w
Patch(b, pos, w) ==
    [i \in 1..Len(b) |->
        IF i - 1 >= pos /\ i - 1 < pos + Len(w) THEN w[i - pos] ELSE b[i]]

\* b with its outer `level` length fields restated to what follows them:
\* the record length (bytes 3..5), the handshake length (bytes 6..9) and the
\* extensions length (at extpos)
Refit(b, level, extpos) ==
    LET r1 == IF level >= 1 /\ Len(b) >= 5
              THEN Patch(b, 3, BE(Len(b) - 5, 2)) ELSE b
        r2 == IF level >= 2 /\ Len(b) >= 9
              THEN Patch(r1, 6, BE(Len(b) - 9, 3)) ELSE r1
    IN  IF level >= 3 /\ Len(b) >= extpos + 2
        THEN Patch(r2, extpos, BE(Len(b) - extpos - 2, 2)) ELSE r2

Cut(family, full, extpos, k, level, nsni, hosts) ==
    [data |-> Refit(SubSeq(full, 1, k), level, extpos),
     shape |-> [family |-> family, wf |-> k = Len(full), tail |-> "exts",
                sni |-> nsni, hosts |-> hosts]]

\* every prefix of the tests' buffers, as cut and with the lengths restated
CutInputs ==
    { Cut("without", TestWithout, 53, k, level, 0, << >>) :
        k \in 0..Len(TestWithout), level \in 0..3 }
    \cup
    { Cut("with", TestWith, 78, k, level, 1,
          << [off |-> 89, len |-> 14, kind |-> "ok"] >>) :
        k \in 0..Len(TestWith), level \in 0..3 }

\* the buffer of test_parse_with_server_name with one byte overwritten
PokeBytes == {0, 1, 255}

PokeInputs ==
    { [data |-> Patch(TestWith, k, << b >>),
       shape |-> [family |-> "poke", wf |-> TestWith[k + 1] = b,
                  tail |-> "exts", sni |-> 1,
                  hosts |-> << [off |-> 89, len |-> 14, kind |-> "ok"] >>]] :
        k \in 0..(Len(TestWith) - 1), b \in PokeBytes }

Inputs ==
    WalkInputs \cup ListInputs \cup LongInputs \cup HeaderInputs
    \cup NoExtsInputs \cup CutInputs \cup PokeInputs

----------------------------------------------------------------------------
(* The call parse_client_hello(data) on every input.                       *)

NoDrop == [err |-> "", v |-> NoView, panic |-> FALSE]

Locals ==
    /\ rec = NoRecord
    /\ hello = NoView
    /\ remaining = NoView
    /\ exts = NoView
    /\ ext_type = NoView
    /\ ext_data = NoView
    /\ sni = NoView
    /\ value = NoView
    /\ name_type = 0
    /\ server_name = << >>
    /\ result = ""
    /\ hiRead = 0
    /\ taken = Ok(NoView)
    /\ rest = NoDrop

Init ==
    /\ \E i \in Inputs : data = i.data /\ shape = i.shape
    /\ pc = "L52"
    /\ len_pos = << 0, 0 >>
    /\ Locals

Next ==
    \/ L52 \/ L53 \/ L56 \/ L61 \/ L64 \/ L66 \/ L71 \/ L73 \/ L75 \/ L77
    \/ L79 \/ L81 \/ L84 \/ L85 \/ L86 \/ L87 \/ L88 \/ L90 \/ L91 \/ L92
    \/ L98

Spec == Init /\ [][Next]_vars

\* The same call under the fairness that straight-line code on one thread
\* has (it keeps running), on a choice of the inputs: the tests' buffers, a
\* hello without extensions, and walks and name lists of a few kinds.
LiveExtKinds == { OtherData, ShortExt, SniExt(HostEntry(NameMixed, "ok"), 0) }

LiveEntryKinds == { HostEntry(NameA, "ok"), HostEntry(NameSpace, "illegal"),
                    OtherEntry }

LiveInputs ==
    { Plain("walk", ExtBlock(CatAll(es), 0)) :
        es \in SeqsUpTo(LiveExtKinds, MaxExts) }
    \cup
    { Plain("list", ExtBlock(Cat(OtherEmpty, SniExt(CatAll(l), 0)), 0)) :
        l \in SeqsUpTo(LiveEntryKinds, MaxEntries) }
    \cup
    { Cut("with", TestWith, 78, Len(TestWith), 0, 1,
          << [off |-> 89, len |-> 14, kind |-> "ok"] >>),
      Cut("without", TestWithout, 53, Len(TestWithout), 0, 0, << >>),
      MakeInput("header", Record(23, 2, 1, Hello(3, 0, Raw(<< >>))), FALSE,
                "none"),
      MakeInput("header", Record(23, 3, 1, Hello(3, 0, Raw(<< >>))), FALSE,
                "none"),
      MakeInput("header", Record(22, 3, 2, Hello(3, 0, Raw(<< >>))), FALSE,
                "none"),
      MakeInput("header", Record(22, 3, 1, Hello(2, 0, Raw(<< >>))), FALSE,
                "none") }

LiveInit ==
    /\ \E i \in LiveInputs : data = i.data /\ shape = i.shape
    /\ pc = "L52"
    /\ len_pos = << 0, 0 >>
    /\ Locals

FairSpec == LiveInit /\ [][Next]_vars /\ WF_vars(Next)

----------------------------------------------------------------------------
(* truncate and drop_before on every small buffer and length-field range.  *)

MaxBuf == 4          \* bytes in a buffer handed to the slicer
MaxStart == 2        \* where the length field starts

SlicerBytes == {0, 1, 2, 255}

NoShape == [family |-> "slicer", wf |-> FALSE, tail |-> "none", sni |-> 0,
            hosts |-> << >>]

SlicerInit ==
    /\ data \in SeqsUpTo(SlicerBytes, MaxBuf)
    /\ shape = NoShape
    /\ len_pos \in { << lo, lo + w >> : lo \in 0..MaxStart, w \in 1..3 }
    /\ pc = "truncate"
    /\ Locals

CallTruncate ==
    /\ pc = "truncate"
    /\ taken' = truncate(Whole, len_pos[1], len_pos[2])
    /\ pc' = "drop_before"
    /\ UNCHANGED << Input, rec, hello, remaining, exts, ext_type, ext_data,
                    sni, value, name_type, server_name, result, hiRead,
                    len_pos, rest >>

CallDropBefore ==
    /\ pc = "drop_before"
    /\ rest' = drop_before(Whole, len_pos[1], len_pos[2])
    /\ pc' = "returned"
    /\ UNCHANGED << Input, rec, hello, remaining, exts, ext_type, ext_data,
                    sni, value, name_type, server_name, result, hiRead,
                    len_pos, taken >>

SlicerNext == CallTruncate \/ CallDropBefore

SlicerSpec == SlicerInit /\ [][SlicerNext]_vars

----------------------------------------------------------------------------
(* Properties.                                                              *)

Done == pc = "done"

HostView(h) == View(h.off, h.len)

\* A complete, well-formed ClientHello with an extensions block.
WellFormed == shape.wf /\ shape.tail = "exts"

\* C1 as stated: a well-formed ClientHello whose extensions hold exactly one
\* Server Name extension with exactly one name_type 0 entry, its value
\* passing parse_server_name, parses to Ok with server_name = Some(name),
\* name being the view (offset, length) of the entry's value in the buffer.
SniRoundTripAnyName ==
    (Done /\ WellFormed /\ shape.sni = 1 /\ Len(shape.hosts) = 1
          /\ shape.hosts[1].kind = "ok")
    => /\ result = "Ok"
       /\ server_name = << HostView(shape.hosts[1]) >>

\* C1, amended: the same for an entry whose value is at least one byte long
\* (the name-list loop of line 87 takes an entry only while more than 3
\* bytes remain); for the buffer of test_parse_with_server_name the bytes
\* of the view are "www.google.com".
SniRoundTrip ==
    (Done /\ WellFormed /\ shape.sni = 1 /\ Len(shape.hosts) = 1
          /\ shape.hosts[1].kind = "ok" /\ shape.hosts[1].len >= 1)
    => /\ result = "Ok"
       /\ server_name = << HostView(shape.hosts[1]) >>
       /\ Inside(server_name[1])
       /\ shape.family = "with" => Bytes(server_name[1]) = TestName

SniRoundTripWitness ==
    /\ Done
    /\ data = TestWith
    /\ result = "Ok"
    /\ server_name = << View(89, 14) >>

\* C2: a well-formed ClientHello whose extensions block holds no Server Name
\* extension parses to Ok with server_name = None; and the record that
\* parse_tls_record returns has content_type = byte 0, version_major =
\* byte 1, version_minor = byte 2 and a fragment that starts at byte 5 and
\* is as long as the big-endian value of bytes 3..5, all inside the buffer.
NoSniIsNone ==
    /\ (Done /\ WellFormed /\ shape.sni = 0)
       => (result = "Ok" /\ server_name = << >>)
    /\ rec # NoRecord
       => /\ Len(data) >= 5
          /\ rec.content_type = data[1]
          /\ rec.version_major = data[2]
          /\ rec.version_minor = data[3]
          /\ rec.fragment = View(5, data[4] * 256 + data[5])
          /\ Len(data) >= 5 + rec.fragment.len

NoSniIsNoneWitness ==
    /\ Done
    /\ data = TestWithout
    /\ result = "Ok"
    /\ server_name = << >>
    /\ rec = [content_type |-> 22, version_major |-> 3, version_minor |-> 1,
              fragment |-> View(5, 161)]

\* C3: a ClientHello that is well-formed up to the compression methods and
\* ends there (fewer than 2 bytes remain) parses to Ok with server_name =
\* None.
NoExtensionsIsNone ==
    (Done /\ shape.family = "noexts" /\ shape.wf)
    => (result = "Ok" /\ server_name = << >>)

\* C4: first match wins: in an Ok result of a well-formed ClientHello that
\* holds hostname entries (each of at least one byte), server_name is the
\* first of them in buffer order.
FirstMatchWins ==
    (Done /\ WellFormed /\ result = "Ok" /\ Len(shape.hosts) >= 1
          /\ \A i \in 1..Len(shape.hosts) : shape.hosts[i].len >= 1)
    => server_name = << HostView(shape.hosts[1]) >>

Contained(v) ==
    /\ Inside(v)
    /\ v = NoView \/ rec = NoRecord
       \/ (rec.fragment.off <= v.off
           /\ v.off + v.len <= rec.fragment.off + rec.fragment.len)

\* C5: truncation safety: on every input, no index or range leaves the
\* slice it is taken from (the call never panics), every slice the parser
\* holds lies inside the input buffer and, past the record header, inside
\* the record's fragment, and no byte at or after the end of the buffer is
\* read.
TruncationSafety ==
    /\ pc # "panic"
    /\ hiRead <= Len(data)
    /\ \A v \in { rec.fragment, hello, remaining, exts, ext_type, ext_data,
                  sni, value } : Contained(v)
    /\ server_name # << >> => Contained(server_name[1])

\* a cut buffer of the test that still parses
TruncationSafetyWitness ==
    /\ Done
    /\ shape.family = "with"
    /\ Len(data) < Len(TestWith)
    /\ result = "Ok"
    /\ server_name # << >>

CompleteRecord ==
    Len(data) >= 5 /\ Len(data) >= 5 + data[4] * 256 + data[5]

\* C6: on a buffer that holds a complete record, the call fails with
\* "unknown tls version" whenever version_major # 3, whatever the content
\* type and the fragment, and with "not handshake" whenever version_major =
\* 3 and content_type # 22; until both checks have passed only the 5 header
\* bytes have been read.
HeaderGating ==
    /\ (Done /\ CompleteRecord /\ data[2] # 3)
       => result = "unknown tls version"
    /\ (Done /\ CompleteRecord /\ data[2] = 3 /\ data[1] # 22)
       => result = "not handshake"
    /\ (pc \in {"L52", "L53", "L56"}
        \/ result \in {"unknown tls version", "not handshake"})
       => hiRead <= 5

HeaderGatingWitness ==
    /\ Done
    /\ CompleteRecord
    /\ data[2] = 4
    /\ data[1] = 23
    /\ result = "unknown tls version"

KindError(kind) ==
    IF kind = "utf8" THEN "server name not utf-8 string"
    ELSE IF kind = "long" THEN "server name too long"
    ELSE IF kind = "illegal" THEN "illegal char in server name"
    ELSE "Ok"

RECURSIVE FirstFailure(_)
FirstFailure(hosts) ==
    IF hosts = << >> THEN "Ok"
    ELSE IF Head(hosts).kind # "ok" THEN KindError(Head(hosts).kind)
    ELSE FirstFailure(Tail(hosts))

LegalBytes == (48..57) \cup (65..90) \cup (97..122) \cup {45, 46, 95}

\* C7: hostname validation: in a well-formed ClientHello the call fails at
\* the first hostname entry whose value is not valid UTF-8 ("server name not
\* utf-8 string"), else is longer than 255 bytes ("server name too long"),
\* else holds a character outside [0-9a-zA-Z._-] ("illegal char in server
\* name"), and is Ok when there is none; in every Ok result a present
\* server_name is at most 255 bytes, each of them in [0-9a-zA-Z._-].
HostnameValidation ==
    /\ (Done /\ WellFormed) => result = FirstFailure(shape.hosts)
    /\ (Done /\ result = "Ok" /\ server_name # << >>)
       => /\ server_name[1].len <= 255
          /\ \A i \in 1..server_name[1].len :
                 Bytes(server_name[1])[i] \in LegalBytes

HostnameValidationWitness ==
    /\ Done
    /\ shape.family = "long"
    /\ shape.hosts[1].len = 255
    /\ shape.hosts[1].kind = "ok"
    /\ result = "Ok"
    /\ server_name # << >>
    /\ server_name[1].len = 255

Declared(v, at) == data[v.off + at + 1] * 256 + data[v.off + at + 2]

BadExtLen == pc = "L81" /\ Declared(exts, 2) > exts.len - 4

BadListLen ==
    pc = "L86" /\ ext_data.len >= 2 /\ Declared(ext_data, 0) > ext_data.len - 2

BadEntryLen == pc = "L88" /\ Declared(sni, 1) > sni.len - 3

\* C8: no partial result: when, in an iteration of the extension walk or of
\* the name-list walk, a declared length exceeds the bytes that remain in
\* the enclosing slice, the call returns an error at that statement, also
\* when a hostname was accepted before; and a returned call stays returned.
NoPartialResult ==
    [][ /\ (BadExtLen \/ BadListLen \/ BadEntryLen)
           => (pc' = "done" /\ result' = "not enough data")
        /\ Done => (pc' = "done" /\ result' = result) ]_vars

NoPartialResultWitness ==
    /\ BadExtLen
    /\ server_name # << >>

BigEndian(b) ==
    IF Len(b) = 1 THEN b[1]
    ELSE IF Len(b) = 2 THEN b[1] * 256 + b[2]
    ELSE b[1] * 65536 + b[2] * 256 + b[3]

\* C9: the slicer contract: truncate fails with "lack data to decode
\* length" iff the range is not inside the buffer, otherwise with "not
\* enough data" iff range.end + len exceeds the buffer, len being the
\* big-endian value of the range's bytes, otherwise returns
\* buffer[range.end .. range.end + len]; drop_before succeeds exactly when
\* truncate does, fails as it fails, and returns buffer[range.end + len ..],
\* so that the two results together are buffer[range.end ..].
SlicerContract ==
    pc = "returned" =>
        LET lo  == len_pos[1]
            hi  == len_pos[2]
            n   == Len(data)
            len == BigEndian(SubSeq(data, lo + 1, hi))
        IN  /\ (taken.err = "lack data to decode length") <=> (hi > n)
            /\ hi <= n =>
                 /\ (taken.err = "not enough data") <=> (hi + len > n)
                 /\ hi + len <= n =>
                      /\ taken = Ok(View(hi, len))
                      /\ Bytes(taken.v) = SubSeq(data, hi + 1, hi + len)
                      /\ rest.v = View(hi + len, n - hi - len)
                      /\ Bytes(taken.v) \o Bytes(rest.v)
                           = SubSeq(data, hi + 1, n)
            /\ rest.err = taken.err
            /\ ~rest.panic

SlicerContractWitness ==
    /\ pc = "returned"
    /\ len_pos = << 0, 3 >>
    /\ IsOk(taken)
    /\ taken.v = View(3, 1)
    /\ IsOk(rest)
    /\ rest.v = View(4, 0)

End(v) == v.off + v.len

CursorsShrink ==
    /\ (pc = "L84" /\ pc' = "L85")
       => (exts'.off >= exts.off + 4 /\ End(exts') = End(exts))
    /\ (pc = "L90" /\ pc' = "L91")
       => (sni'.off >= sni.off + 3 /\ End(sni') = End(sni))
    /\ exts' # exts => pc \in {"L77", "L84"}
    /\ sni' # sni => pc \in {"L86", "L90"}
    /\ (pc = "L79" /\ exts.len < 4) => pc' = "L98"
    /\ (pc = "L87" /\ sni.len <= 3) => pc' = "L79"

\* C10: termination: every call returns; an iteration of the extension loop
\* that does not fail moves the start of the extensions cursor forward by at
\* least 4 bytes and one of the name-list loop moves the start of the list
\* cursor forward by at least 3, the ends staying where they are; the
\* cursors change nowhere else; the loops exit once fewer than 4
\* (extensions) or at most 3 (name list) bytes remain.
Termination == <>Done /\ [][CursorsShrink]_vars

\* the call on the test's buffer, returned with both cursors at their ends
TerminationWitness ==
    /\ Done
    /\ result = "Ok"
    /\ data = TestWith
    /\ exts = View(Len(TestWith), 0)
    /\ sni = View(103, 0)

====
